---------------------------- MODULE Spec2Model ----------------------------
(***************************************************************************)
(* State-machine model of src/script.js (Agent Data Pod interactive        *)
(* scripts): the theme toggle (initTheme, storage), the mobile navigation  *)
(* (initNavigation), the progress bar (initProgressBar), the copy buttons  *)
(* (initCopyButtons), the table of contents highlighter (initTOC) and the  *)
(* reveal-on-scroll animator (initRevealAnimations).                       *)
(*                                                                         *)
(* The document is an input of the script: Init draws the markup (is there *)
(* a #toc, which links it holds and with which href, which headings carry  *)
(* an id, which elements are reveal targets) from bounded sets.  The class *)
(* names 'active' and 'visible' and the attribute aria-current belong to   *)
(* the script: the markup does not set them.                               *)
(* An IntersectionObserver callback is one action: it consumes one whole   *)
(* batch of entries, in the order of the batch.                            *)
(***************************************************************************)
EXTENDS Naturals, Sequences, FiniteSets, TLC

\* ------------------------------------------------------------------ bounds
\* Largest number of <a> elements inside #toc.
NumLinks == 2
\* Largest number of entries the host hands to the TOC observer's callback.
MaxTocBatch == 2
\* Largest number of entries the host hands to the reveal observer's callback.
MaxRevealBatch == 3
\* Largest number of clicks on the copy button.
MaxClicks == 2

\* ----------------------------------------------------------------- domains
\* Ids of the h2[id] / h3[id] elements a document may hold.
Ids == {"a", "b"}
\* The href values a TOC link may carry: a fragment of each heading, and one
\* fragment that matches no heading.
Hrefs == {"#" \o i : i \in Ids} \cup {"#top"}
\* The elements a document may tag .reveal or .stagger.
Targets == {"x", "y"}

VARIABLES
  toc,            \* TRUE iff the document holds an element with id 'toc'
  href,           \* the href of each <a> element of #toc, in document order
  headings,       \* ids of the elements matching h2[id], h3[id]
  active,         \* TOC links (indices) carrying the class 'active'
  ariaCurrent,    \* TOC links (indices) carrying the attribute aria-current
  pc,             \* "loading" until DOMContentLoaded has been handled, then "ready"
  tocObserver,    \* TRUE once initTOC has constructed its IntersectionObserver
  tocObserved,    \* headings registered with that observer
  tocThrew,       \* TRUE if initTOC raised an error
  tocBatch,       \* the batch the TOC callback processed last (<<>>: none yet)
  tocPrev,        \* the links' state before that batch
  elements,       \* the elements matching .reveal, .stagger
  visible,        \* elements carrying the class 'visible'
  reducedMotion,  \* the live value of (prefers-reduced-motion: reduce)
  motionAtInit,   \* the value of the preference when DOMContentLoaded was handled
  motionReads,    \* how often the script has read the preference
  revealObserver, \* TRUE once initRevealAnimations has constructed its observer
  revealObserved, \* elements registered with that observer
  revealBatch,    \* the batch the reveal callback processed last (<<>>: none yet)
  revealPrev,     \* the set 'visible' before that batch
  errors,         \* the listeners that ended with an uncaught error
  themeToggle,    \* TRUE iff the document holds an element with id 'theme-toggle'
  theme,          \* html.dataset.theme ("unset": the attribute is absent)
  ariaPressed,    \* the toggle's aria-pressed attribute ("unset": absent)
  stored,         \* the item 'theme' of localStorage (NoItem: there is none)
  storageMode,    \* "ok", "full" (setItem throws) or "blocked" (every access throws)
  prefersDark,    \* the live value of (prefers-color-scheme: dark)
  themeListeners, \* TRUE once the toggle's click and keydown listeners are registered
  schemeListener, \* TRUE once the change listener of the colour scheme is registered
  themeEvent,     \* the theme event handled last ("none": none yet)
  themePrev,      \* html.dataset.theme before that event
  storedPrev,     \* the stored item before that event
  navToggle,      \* TRUE iff the document holds an element with id 'nav-toggle'
  navLinks,       \* TRUE iff the document holds an element with id 'nav-links'
  navAnchors,     \* TRUE iff #nav-links holds at least one <a>
  nav,            \* the menu: open (#nav-links has the class 'open'), expanded
                  \* (the toggle's aria-expanded, "unset": absent), touched
                  \* (openMenu or closeMenu has run), focused (toggle.focus() has run)
  navListeners,   \* TRUE once initNavigation has registered its listeners
  navEvent,       \* the navigation event handled last ("none": none yet)
  navPrev,        \* the menu before that event
  progressEl,     \* TRUE iff the document holds an element with id 'progress'
  scrollListener, \* TRUE once initProgressBar has registered its scroll listener
  progressUpdates, \* how often updateProgress has run
  copyBtn,        \* TRUE iff the document holds a .copy-btn element
  copySpan,       \* TRUE iff that button holds a <span>
  codeEl,         \* TRUE iff the element the button's data-copy names exists
  statusRegion,   \* TRUE iff the document holds an element with id 'copy-status'
  copy,           \* the button and its surroundings: copied (the class), label
                  \* (the span's text), status (the status region's text),
                  \* selected (the code is the selection), resets (the pending
                  \* 2 s timers, each with the originalText it captured),
                  \* clears (the number of pending 1 s timers)
  copyListener,   \* TRUE once the button's click listener is registered
  clicks,         \* the number of clicks on the button so far
  pendingWrites,  \* clipboard writes that have not settled yet
  anyRejected,    \* TRUE once a clipboard write has been rejected
  labelAtLoad,    \* the span's text when the document was loaded
  copyEvent,      \* the copy event handled last ("none": none yet)
  copyPrev        \* the record 'copy' before that event

tocVars == <<toc, href, headings, active, ariaCurrent, tocObserver, tocObserved,
             tocThrew, tocBatch, tocPrev>>
revealVars == <<elements, visible, reducedMotion, motionAtInit, motionReads,
                revealObserver, revealObserved, revealBatch, revealPrev>>
themeVars == <<themeToggle, theme, ariaPressed, stored, storageMode, prefersDark,
               themeListeners, schemeListener, themeEvent, themePrev, storedPrev>>
\* What the observers' callbacks leave alone.
navVars == <<navToggle, navLinks, navAnchors, nav, navListeners, navEvent, navPrev>>
progressVars == <<progressEl, scrollListener, progressUpdates>>
copyVars == <<copyBtn, copySpan, codeEl, statusRegion, copy, copyListener, clicks,
              pendingWrites, anyRejected, labelAtLoad, copyEvent, copyPrev>>
pageVars == <<errors, themeVars, navVars, progressVars, copyVars>>
vars == <<pc, tocVars, revealVars, pageVars>>

\* --------------------------------------------------------------- the host
\* One IntersectionObserverEntry: its target and its isIntersecting flag.
Entries(S) == [target : S, isIntersecting : BOOLEAN]
\* The batches of at most max entries the host may hand to a callback
\* observing the elements S.
Batches(S, max) == UNION {[1..n -> Entries(S)] : n \in 1..max}

\* The <a> elements of #toc (toc.querySelectorAll('a')).
tocLinks == DOMAIN href

\* ------------------------------------------------------------- storage
\* What localStorage.getItem returns for a missing item (null).
NoItem == "null"
\* The values the script itself ever stores under 'theme'.
StoredThemes == {"dark", "light"}

\* A get without its try/catch: the error of a blocked store escapes.
StorageGetUnsafe ==
  IF storageMode = "blocked" THEN [value |-> NoItem, threw |-> TRUE]
  ELSE [value |-> stored, threw |-> FALSE]
\* storage.get('theme'): the item, or null when the access throws.
StorageGet ==
  IF storageMode = "blocked" THEN [value |-> NoItem, threw |-> FALSE]
  ELSE [value |-> stored, threw |-> FALSE]

\* A set without its try/catch: the error of a failing store escapes.
StorageSetUnsafe(value) ==
  IF storageMode \in {"blocked", "full"} THEN [stored |-> stored, threw |-> TRUE]
  ELSE [stored |-> value, threw |-> FALSE]
\* storage.set('theme', value): the store afterwards; a throw is swallowed.
StorageSet(value) ==
  IF storageMode \in {"blocked", "full"} THEN [stored |-> stored, threw |-> FALSE]
  ELSE [stored |-> value, threw |-> FALSE]

\* JavaScript truthiness of what storage.get returns.
Truthy(v) == v # NoItem

\* ----------------------------------------------------------- initTheme
\* The attribute value setAttribute writes for a boolean.
BoolString(b) == IF b THEN "true" ELSE "false"

\* An update that writes the attribute the wrong way round.
UpdateToggleStateInverted(th, pressed) ==
  IF themeToggle THEN BoolString(th # "dark") ELSE pressed
\* updateToggleState(): aria-pressed after it, for the theme th.
UpdateToggleState(th, pressed) ==
  IF themeToggle THEN BoolString(th = "dark") ELSE pressed

\* The theme after 'Load saved theme or detect system preference'.
LoadedTheme(saved) ==
  IF Truthy(saved) THEN saved
  ELSE IF prefersDark THEN "dark"
  ELSE theme

\* What initTheme leaves behind.
InitThemeResult ==
  IF StorageGet.threw
    THEN [theme |-> theme, pressed |-> ariaPressed, listeners |-> FALSE,
          scheme |-> FALSE, threw |-> TRUE]
  ELSE [theme |-> LoadedTheme(StorageGet.value),
        pressed |-> UpdateToggleState(LoadedTheme(StorageGet.value), ariaPressed),
        listeners |-> themeToggle, scheme |-> TRUE, threw |-> FALSE]

\* html.dataset.theme === 'dark' ? 'light' : 'dark'
NextTheme(th) == IF th = "dark" THEN "light" ELSE "dark"

\* A toggle that does not write the store.
ToggleThemeNoStore ==
  [theme |-> NextTheme(theme), stored |-> stored,
   pressed |-> UpdateToggleState(NextTheme(theme), ariaPressed), threw |-> FALSE]
\* toggleTheme(): what it leaves behind; an error of storage.set ends it
\* before updateToggleState().
ToggleTheme ==
  IF StorageSet(NextTheme(theme)).threw
    THEN [theme |-> NextTheme(theme), stored |-> stored, pressed |-> ariaPressed,
          threw |-> TRUE]
  ELSE [theme |-> NextTheme(theme), stored |-> StorageSet(NextTheme(theme)).stored,
        pressed |-> UpdateToggleState(NextTheme(theme), ariaPressed),
        threw |-> FALSE]

\* The frame of the theme's event listeners.
ThemeFrame ==
  /\ UNCHANGED <<pc, themeToggle, storageMode, themeListeners, schemeListener>>
  /\ UNCHANGED tocVars
  /\ UNCHANGED revealVars
  /\ UNCHANGED navVars
  /\ UNCHANGED progressVars
  /\ UNCHANGED copyVars

\* The steps of one run of toggleTheme() from a listener.
RunToggleTheme(event) ==
  /\ theme' = ToggleTheme.theme
  /\ stored' = ToggleTheme.stored
  /\ ariaPressed' = ToggleTheme.pressed
  /\ errors' = IF ToggleTheme.threw THEN errors \cup {"toggleTheme"} ELSE errors
  /\ themeEvent' = event
  /\ themePrev' = theme
  /\ storedPrev' = stored

\* The toggle's click listener.
ThemeClick ==
  /\ pc = "ready"
  /\ themeListeners
  /\ RunToggleTheme("click")
  /\ UNCHANGED prefersDark
  /\ ThemeFrame

\* The keys a keydown event on the toggle may carry.
Keys == {"Enter", " ", "Tab"}

\* The toggle's keydown listener: Enter and Space toggle, other keys do not.
ThemeKeydown ==
  /\ pc = "ready"
  /\ themeListeners
  /\ \E key \in Keys :
       IF key = "Enter" \/ key = " "
         THEN RunToggleTheme("key")
         ELSE /\ themeEvent' = "otherkey"
              /\ themePrev' = theme
              /\ storedPrev' = stored
              /\ UNCHANGED <<theme, stored, ariaPressed, errors>>
  /\ UNCHANGED prefersDark
  /\ ThemeFrame

\* A change listener that follows the system whatever the store holds.
SchemeChangeAlways(matches) ==
  [theme |-> IF matches THEN "dark" ELSE "light",
   pressed |-> UpdateToggleState(IF matches THEN "dark" ELSE "light", ariaPressed),
   threw |-> FALSE]
\* The change listener of (prefers-color-scheme: dark), for e.matches.
SchemeChange(matches) ==
  IF StorageGet.threw
    THEN [theme |-> theme, pressed |-> ariaPressed, threw |-> TRUE]
  ELSE IF ~Truthy(StorageGet.value)
    THEN [theme |-> IF matches THEN "dark" ELSE "light",
          pressed |-> UpdateToggleState(IF matches THEN "dark" ELSE "light",
                                        ariaPressed),
          threw |-> FALSE]
  ELSE [theme |-> theme, pressed |-> ariaPressed, threw |-> FALSE]

\* The system's colour scheme changes; the change listener runs if it is
\* registered.
SystemSchemeChange ==
  /\ prefersDark' = ~prefersDark
  /\ IF schemeListener
       THEN /\ theme' = SchemeChange(prefersDark').theme
            /\ ariaPressed' = SchemeChange(prefersDark').pressed
            /\ errors' = IF SchemeChange(prefersDark').threw
                           THEN errors \cup {"schemeChange"} ELSE errors
            /\ themeEvent' = "scheme"
            /\ themePrev' = theme
            /\ storedPrev' = stored
       ELSE UNCHANGED <<theme, ariaPressed, errors, themeEvent, themePrev, storedPrev>>
  /\ UNCHANGED stored
  /\ ThemeFrame

\* ------------------------------------------------------ initNavigation
\* A closeMenu that forgets the toggle's attribute.
CloseMenuClassOnly(m) == [m EXCEPT !.open = FALSE, !.touched = TRUE]
\* openMenu()
OpenMenu(m) == [m EXCEPT !.open = TRUE, !.expanded = "true", !.touched = TRUE]
\* closeMenu()
CloseMenu(m) == [m EXCEPT !.open = FALSE, !.expanded = "false", !.touched = TRUE]

\* What a click may hit: the toggle (or a node in it), an <a> of
\* #nav-links, #nav-links elsewhere, or the rest of the document.
ClickTargets == {"toggle", "link", "links", "outside"}
\* toggle.contains(e.target)
InToggle(target) == target = "toggle"
\* links.contains(e.target)
InLinks(target) == target \in {"link", "links"}

\* The toggle's click listener.
ToggleClicked(m) == IF m.open THEN CloseMenu(m) ELSE OpenMenu(m)

\* A document listener that only spares clicks inside #nav-links.
DocumentClickedNoToggleTest(m, target) ==
  IF ~InLinks(target) THEN CloseMenu(m) ELSE m
\* The document's click listener ('Close menu when clicking outside').
DocumentClicked(m, target) ==
  IF ~InToggle(target) /\ ~InLinks(target) THEN CloseMenu(m) ELSE m

\* The listeners on the target itself, which run before the event bubbles.
TargetClicked(m, target) ==
  IF target = "toggle" THEN ToggleClicked(m)
  ELSE IF target = "link" THEN CloseMenu(m)
  ELSE m

\* The document's keydown listener ('Close menu on escape key').
KeyPressed(m, key) ==
  IF key = "Escape" /\ m.open
    THEN [CloseMenu(m) EXCEPT !.focused = TRUE]
    ELSE m

\* initNavigation without its guard: links.querySelectorAll on null throws
\* once the toggle's and the document's listeners are registered.
InitNavigationUnguarded ==
  IF ~navToggle THEN [listeners |-> FALSE, threw |-> TRUE]
  ELSE IF ~navLinks THEN [listeners |-> TRUE, threw |-> TRUE]
  ELSE [listeners |-> TRUE, threw |-> FALSE]
\* What initNavigation leaves behind.
InitNavigationResult ==
  IF ~navToggle \/ ~navLinks THEN [listeners |-> FALSE, threw |-> FALSE]
  ELSE [listeners |-> TRUE, threw |-> FALSE]

\* The frame of the navigation's event listeners.
NavFrame ==
  /\ UNCHANGED <<pc, errors, navToggle, navLinks, navAnchors, navListeners>>
  /\ UNCHANGED tocVars
  /\ UNCHANGED revealVars
  /\ UNCHANGED themeVars
  /\ UNCHANGED progressVars
  /\ UNCHANGED copyVars

\* One click somewhere in the document: the target's listeners, then the
\* document's.
NavClick ==
  /\ pc = "ready"
  /\ navListeners
  /\ \E target \in ClickTargets :
       /\ target = "link" => navAnchors
       /\ nav' = DocumentClicked(TargetClicked(nav, target), target)
       /\ navEvent' = target
       /\ navPrev' = nav
  /\ NavFrame

\* The keys a keydown event on the document may carry.
NavKeys == {"Escape", "Tab"}

\* One key press somewhere in the document.
NavKeydown ==
  /\ pc = "ready"
  /\ navListeners
  /\ \E key \in NavKeys :
       /\ nav' = KeyPressed(nav, key)
       /\ navEvent' = key
       /\ navPrev' = nav
  /\ NavFrame

\* ----------------------------------------------------- initProgressBar
\* What initProgressBar leaves behind: the scroll listener and the initial
\* call of updateProgress.
InitProgressBarResult ==
  IF ~progressEl THEN [listener |-> FALSE, updates |-> 0, threw |-> FALSE]
  ELSE [listener |-> TRUE, updates |-> 1, threw |-> FALSE]

\* ----------------------------------------------------- initCopyButtons
\* announce(message): the status region shows it and a 1 s timer is set to
\* clear it; nothing happens without the region.
Announce(c, message) ==
  IF statusRegion
    THEN [c EXCEPT !.status = message, !.clears = c.clears + 1]
    ELSE c

\* span?.textContent || 'Copy'
OriginalText(c) == IF copySpan /\ c.label # "" THEN c.label ELSE "Copy"

\* The listener after a clipboard write that succeeded: the visual
\* feedback, the announcement and the 2 s reset timer.
CopyResolved(c) ==
  Announce([c EXCEPT !.copied = TRUE,
                     !.label = IF copySpan THEN "Copied!" ELSE c.label,
                     !.resets = Append(c.resets, OriginalText(c))],
           "Code copied to clipboard")

\* A listener whose feedback is given whether or not the write succeeded.
CopyRejectedWithFeedback(c) ==
  [CopyResolved(c) EXCEPT !.status = IF statusRegion THEN "Failed to copy code"
                                     ELSE c.status,
                          !.selected = TRUE]
\* The listener's catch block after a clipboard write that was rejected:
\* the announcement and the selection of the code.
CopyRejected(c) ==
  [Announce(c, "Failed to copy code") EXCEPT !.selected = TRUE]

\* The 2 s timer set first fires: the class goes, the span gets the
\* originalText the timer captured.
ResetFired(c) ==
  [c EXCEPT !.copied = FALSE,
            !.label = IF copySpan THEN Head(c.resets) ELSE c.label,
            !.resets = Tail(c.resets)]

\* A 1 s timer of announce fires: the status region is cleared.
ClearFired(c) == [c EXCEPT !.status = "", !.clears = c.clears - 1]

\* The frame of the copy button's listeners and timers.
CopyFrame ==
  /\ UNCHANGED <<pc, errors, copyBtn, copySpan, codeEl, statusRegion, copyListener,
                 labelAtLoad>>
  /\ UNCHANGED tocVars
  /\ UNCHANGED revealVars
  /\ UNCHANGED themeVars
  /\ UNCHANGED navVars
  /\ UNCHANGED progressVars

\* A click on the copy button: the listener up to its await.  Without the
\* target element it returns at once.
CopyClick ==
  /\ pc = "ready"
  /\ copyListener
  /\ clicks < MaxClicks
  /\ clicks' = clicks + 1
  /\ pendingWrites' = IF codeEl THEN pendingWrites + 1 ELSE pendingWrites
  /\ copyEvent' = "click"
  /\ copyPrev' = copy
  /\ UNCHANGED <<copy, anyRejected>>
  /\ CopyFrame

\* A clipboard write settles and the listener resumes after its await.
ClipboardSettles ==
  /\ pendingWrites > 0
  /\ pendingWrites' = pendingWrites - 1
  /\ \E ok \in BOOLEAN :
       /\ copy' = IF ok THEN CopyResolved(copy) ELSE CopyRejected(copy)
       /\ copyEvent' = IF ok THEN "resolved" ELSE "rejected"
       /\ anyRejected' = (anyRejected \/ ~ok)
  /\ copyPrev' = copy
  /\ UNCHANGED clicks
  /\ CopyFrame

\* The oldest pending 2 s timer fires.
ResetTimerFires ==
  /\ copy.resets # <<>>
  /\ copy' = ResetFired(copy)
  /\ copyEvent' = "reset"
  /\ copyPrev' = copy
  /\ UNCHANGED <<clicks, pendingWrites, anyRejected>>
  /\ CopyFrame

\* A pending 1 s timer fires.
ClearTimerFires ==
  /\ copy.clears > 0
  /\ copy' = ClearFired(copy)
  /\ copyEvent' = "clear"
  /\ copyPrev' = copy
  /\ UNCHANGED <<clicks, pendingWrites, anyRejected>>
  /\ CopyFrame

\* What initCopyButtons leaves behind: one click listener per button.
InitCopyButtonsResult == [listener |-> copyBtn]

\* ------------------------------------------------------------ initTOC
\* A toggle that only ever adds the class.
ToggleAddOnly(cls, l, force) == IF force THEN cls \cup {l} ELSE cls
\* classList.toggle(name, force) on element l of the class holders cls.
ClassToggle(cls, l, force) == IF force THEN cls \cup {l} ELSE cls \ {l}

\* An update without the removeAttribute branch.
AriaKeep(attr, l, isActive) == IF isActive THEN attr \cup {l} ELSE attr
\* setAttribute('aria-current','true') / removeAttribute('aria-current').
AriaUpdate(attr, l, isActive) == IF isActive THEN attr \cup {l} ELSE attr \ {l}

\* A comparison of the href with the bare id.
IsActiveNoHash(l, id) == href[l] = id
\* link.getAttribute('href') === '#' + entry.target.id
IsActive(l, id) == href[l] = "#" \o id

\* The body of tocLinks.forEach for one link l and the entry's target id.
LinkStep(st, l, id) ==
  [active |-> ClassToggle(st.active, l, IsActive(l, id)),
   aria   |-> AriaUpdate(st.aria, l, IsActive(l, id))]

\* tocLinks.forEach(link => ...): links l..n in document order.
RECURSIVE LinkPass(_, _, _, _)
LinkPass(st, l, n, id) ==
  IF l > n THEN st ELSE LinkPass(LinkStep(st, l, id), l + 1, n, id)

\* A body that also unmarks the links of a heading that stops intersecting.
EntryStepUnmarks(st, entry) ==
  IF entry.isIntersecting
    THEN LinkPass(st, 1, Cardinality(tocLinks), entry.target)
    ELSE [active |-> {l \in st.active : ~IsActive(l, entry.target)},
          aria   |-> {l \in st.aria : ~IsActive(l, entry.target)}]
\* The body of entries.forEach for one entry.
EntryStep(st, entry) ==
  IF entry.isIntersecting
    THEN LinkPass(st, 1, Cardinality(tocLinks), entry.target)
    ELSE st

\* The observer callback: entries.forEach(entry => ...), from entry i on.
RECURSIVE TocFrom(_, _, _)
TocFrom(st, entries, i) ==
  IF i > Len(entries) THEN st
  ELSE TocFrom(EntryStep(st, entries[i]), entries, i + 1)

\* A callback that stops at the first intersecting entry of the batch.
RECURSIVE TocFirstWins(_, _)
TocFirstWins(st, entries) ==
  IF entries = <<>> THEN st
  ELSE IF Head(entries).isIntersecting THEN EntryStep(st, Head(entries))
  ELSE TocFirstWins(st, Tail(entries))

\* The TOC observer's callback on one batch.
TocCallback(st, entries) == TocFrom(st, entries, 1)

\* initTOC without its first guard: toc.querySelectorAll on null throws.
InitTOCUnguarded ==
  IF ~toc THEN [observer |-> FALSE, observed |-> {}, threw |-> TRUE]
  ELSE IF Cardinality(headings) = 0
    THEN [observer |-> FALSE, observed |-> {}, threw |-> FALSE]
  ELSE [observer |-> TRUE, observed |-> headings, threw |-> FALSE]

\* What initTOC leaves behind: the two early returns, else the observer
\* and one observe() per heading.
InitTOCResult ==
  IF ~toc THEN [observer |-> FALSE, observed |-> {}, threw |-> FALSE]
  ELSE IF Cardinality(headings) = 0
    THEN [observer |-> FALSE, observed |-> {}, threw |-> FALSE]
  ELSE [observer |-> TRUE, observed |-> headings, threw |-> FALSE]

\* The host delivers one batch to the TOC observer's callback.
TocNotify ==
  /\ pc = "ready"
  /\ tocObserver
  /\ \E batch \in Batches(tocObserved, MaxTocBatch) :
       LET st == TocCallback([active |-> active, aria |-> ariaCurrent], batch)
       IN /\ active' = st.active
          /\ ariaCurrent' = st.aria
          /\ tocBatch' = batch
          /\ tocPrev' = [active |-> active, aria |-> ariaCurrent]
  /\ UNCHANGED <<pc, toc, href, headings, tocObserver, tocObserved, tocThrew>>
  /\ UNCHANGED revealVars
  /\ UNCHANGED pageVars

\* ------------------------------------------------ initRevealAnimations
\* A body that sets the class from the flag: classList.toggle('visible', flag).
RevealStepToggle(vis, entry) ==
  IF entry.isIntersecting THEN vis \cup {entry.target} ELSE vis \ {entry.target}
\* The body of entries.forEach of the reveal callback for one entry.
RevealStep(vis, entry) ==
  IF entry.isIntersecting THEN vis \cup {entry.target} ELSE vis

RECURSIVE RevealFrom(_, _, _)
RevealFrom(vis, entries, i) ==
  IF i > Len(entries) THEN vis
  ELSE RevealFrom(RevealStep(vis, entries[i]), entries, i + 1)

\* A callback that looks at the first entry of the batch only.
RevealFirstOnly(vis, entries) == RevealStep(vis, entries[1])
\* A callback that looks at the last entry of the batch only.
RevealLastOnly(vis, entries) == RevealStep(vis, entries[Len(entries)])
\* The reveal observer's callback on one batch.
RevealCallback(vis, entries) == RevealFrom(vis, entries, 1)

\* initRevealAnimations without the return of its reduced-motion branch.
InitRevealFallsThrough ==
  IF Cardinality(elements) = 0
    THEN [visible |-> visible, reads |-> 0, observer |-> FALSE, observed |-> {}]
  ELSE IF reducedMotion
    THEN [visible |-> visible \cup elements, reads |-> 1,
          observer |-> TRUE, observed |-> elements]
  ELSE [visible |-> visible, reads |-> 1, observer |-> TRUE, observed |-> elements]

\* What initRevealAnimations leaves behind: the early return, the
\* reduced-motion branch, else the observer and one observe() per element.
InitRevealResult ==
  IF Cardinality(elements) = 0
    THEN [visible |-> visible, reads |-> 0, observer |-> FALSE, observed |-> {}]
  ELSE IF reducedMotion
    THEN [visible |-> visible \cup elements, reads |-> 1,
          observer |-> FALSE, observed |-> {}]
  ELSE [visible |-> visible, reads |-> 1, observer |-> TRUE, observed |-> elements]

\* The init functions the DOMContentLoaded listener reaches: each runs
\* unless an earlier one raised an error.
NavRuns == ~InitThemeResult.threw
ProgressRuns == NavRuns /\ ~InitNavigationResult.threw
CopyRuns == ProgressRuns /\ ~InitProgressBarResult.threw
\* initCopyButtons raises no error.
TocRuns == CopyRuns
RevealRuns == TocRuns /\ ~InitTOCResult.threw

\* The errors the DOMContentLoaded listener ends with.
LoadErrors ==
  IF InitThemeResult.threw THEN {"initTheme"}
  ELSE IF InitNavigationResult.threw THEN {"initNavigation"}
  ELSE IF InitProgressBarResult.threw THEN {"initProgressBar"}
  ELSE {}

\* The DOMContentLoaded listener: initTheme(), initNavigation(),
\* initProgressBar(), initCopyButtons(), initTOC(), then
\* initRevealAnimations(); an error raised by one of them ends the listener.
DOMContentLoaded ==
  /\ pc = "loading"
  /\ pc' = "ready"
  /\ theme' = InitThemeResult.theme
  /\ ariaPressed' = InitThemeResult.pressed
  /\ themeListeners' = InitThemeResult.listeners
  /\ schemeListener' = InitThemeResult.scheme
  /\ themeEvent' = "init"
  /\ themePrev' = theme
  /\ storedPrev' = stored
  /\ errors' = errors \cup LoadErrors
  /\ motionAtInit' = reducedMotion
  /\ navListeners' = (NavRuns /\ InitNavigationResult.listeners)
  /\ scrollListener' = (ProgressRuns /\ InitProgressBarResult.listener)
  /\ progressUpdates' = IF ProgressRuns THEN InitProgressBarResult.updates ELSE 0
  /\ copyListener' = (CopyRuns /\ InitCopyButtonsResult.listener)
  /\ IF TocRuns
       THEN /\ tocObserver' = InitTOCResult.observer
            /\ tocObserved' = InitTOCResult.observed
            /\ tocThrew' = InitTOCResult.threw
       ELSE UNCHANGED <<tocObserver, tocObserved, tocThrew>>
  /\ IF RevealRuns
       THEN /\ visible' = InitRevealResult.visible
            /\ motionReads' = motionReads + InitRevealResult.reads
            /\ revealObserver' = InitRevealResult.observer
            /\ revealObserved' = InitRevealResult.observed
       ELSE UNCHANGED <<visible, motionReads, revealObserver, revealObserved>>
  /\ UNCHANGED <<toc, href, headings, active, ariaCurrent, tocBatch, tocPrev>>
  /\ UNCHANGED <<elements, reducedMotion, revealBatch, revealPrev>>
  /\ UNCHANGED <<themeToggle, stored, storageMode, prefersDark>>
  /\ UNCHANGED <<navToggle, navLinks, navAnchors, nav, navEvent, navPrev, progressEl>>
  /\ UNCHANGED <<copyBtn, copySpan, codeEl, statusRegion, copy, clicks, pendingWrites,
                 anyRejected, labelAtLoad, copyEvent, copyPrev>>

\* The host delivers one batch to the reveal observer's callback.
RevealNotify ==
  /\ pc = "ready"
  /\ revealObserver
  /\ \E batch \in Batches(revealObserved, MaxRevealBatch) :
       /\ visible' = RevealCallback(visible, batch)
       /\ revealBatch' = batch
       /\ revealPrev' = visible
  /\ UNCHANGED <<pc, elements, reducedMotion, motionAtInit, motionReads,
                 revealObserver, revealObserved>>
  /\ UNCHANGED tocVars
  /\ UNCHANGED pageVars

\* A script that also listens to the preference's change event and shows
\* everything once the user asks for reduced motion.
MotionPrefChangeLive ==
  /\ reducedMotion' = ~reducedMotion
  /\ visible' = IF reducedMotion' /\ pc = "ready" THEN elements ELSE visible
  /\ UNCHANGED <<pc, elements, motionAtInit, motionReads, revealObserver,
                 revealObserved, revealBatch, revealPrev>>
  /\ UNCHANGED tocVars
  /\ UNCHANGED pageVars

\* The user changes the system's reduced-motion preference.  The script
\* reads matchMedia(...).matches and registers no change listener on it.
MotionPrefChange ==
  /\ reducedMotion' = ~reducedMotion
  /\ UNCHANGED <<pc, elements, visible, motionAtInit, motionReads, revealObserver,
                 revealObserved, revealBatch, revealPrev>>
  /\ UNCHANGED tocVars
  /\ UNCHANGED pageVars

\* ------------------------------------------------------------------ Init
\* The link lists of a #toc: up to NumLinks links, any href each.
LinkLists == UNION {[1..n -> Hrefs] : n \in 0..NumLinks}

InitTocPart ==
  /\ toc \in BOOLEAN
  /\ href \in (IF toc THEN LinkLists ELSE {<<>>})
  /\ headings \in SUBSET Ids
  /\ active = {}
  /\ ariaCurrent = {}
  /\ tocObserver = FALSE
  /\ tocObserved = {}
  /\ tocThrew = FALSE
  /\ tocBatch = <<>>
  /\ tocPrev = [active |-> {}, aria |-> {}]

InitRevealPart ==
  /\ elements \in SUBSET Targets
  /\ visible = {}
  /\ reducedMotion \in BOOLEAN
  /\ motionAtInit = FALSE
  /\ motionReads = 0
  /\ revealObserver = FALSE
  /\ revealObserved = {}
  /\ revealBatch = <<>>
  /\ revealPrev = {}

\* A document without reveal targets.
NoRevealPart ==
  /\ elements = {}
  /\ visible = {}
  /\ reducedMotion = FALSE
  /\ motionAtInit = FALSE
  /\ motionReads = 0
  /\ revealObserver = FALSE
  /\ revealObserved = {}
  /\ revealBatch = <<>>
  /\ revealPrev = {}

\* A document without #toc and without headings.
NoTocPart ==
  /\ toc = FALSE
  /\ href = <<>>
  /\ headings = {}
  /\ active = {}
  /\ ariaCurrent = {}
  /\ tocObserver = FALSE
  /\ tocObserved = {}
  /\ tocThrew = FALSE
  /\ tocBatch = <<>>
  /\ tocPrev = [active |-> {}, aria |-> {}]

\* The theme's inputs: the toggle, the markup's data-theme and aria-pressed,
\* the store and the system's colour scheme.
InitThemePart ==
  /\ themeToggle \in BOOLEAN
  /\ theme \in {"unset"} \cup StoredThemes
  /\ ariaPressed \in (IF themeToggle THEN {"unset", "false", "true"} ELSE {"unset"})
  /\ stored \in {NoItem} \cup StoredThemes
  /\ storageMode \in {"ok", "full", "blocked"}
  /\ prefersDark \in BOOLEAN
  /\ themeListeners = FALSE
  /\ schemeListener = FALSE
  /\ themeEvent = "none"
  /\ themePrev = theme
  /\ storedPrev = stored

\* A document without a theme toggle, an empty store, a light system.
NoThemePart ==
  /\ themeToggle = FALSE
  /\ theme = "unset"
  /\ ariaPressed = "unset"
  /\ stored = NoItem
  /\ storageMode = "ok"
  /\ prefersDark = FALSE
  /\ themeListeners = FALSE
  /\ schemeListener = FALSE
  /\ themeEvent = "none"
  /\ themePrev = "unset"
  /\ storedPrev = NoItem

\* The menus the markup may ship: the class 'open' on #nav-links and the
\* toggle's aria-expanded, as far as the elements exist.
InitialMenus ==
  [open : IF navLinks THEN BOOLEAN ELSE {FALSE},
   expanded : IF navToggle THEN {"unset", "false", "true"} ELSE {"unset"},
   touched : {FALSE}, focused : {FALSE}]

\* The navigation's and the progress bar's inputs.
InitNavPart ==
  /\ navToggle \in BOOLEAN
  /\ navLinks \in BOOLEAN
  /\ navAnchors \in (IF navLinks THEN BOOLEAN ELSE {FALSE})
  /\ nav \in InitialMenus
  /\ navListeners = FALSE
  /\ navEvent = "none"
  /\ navPrev = nav
  /\ progressEl \in BOOLEAN
  /\ scrollListener = FALSE
  /\ progressUpdates = 0

\* A document without navigation and progress bar.
NoNavPart ==
  /\ navToggle = FALSE
  /\ navLinks = FALSE
  /\ navAnchors = FALSE
  /\ nav = [open |-> FALSE, expanded |-> "unset", touched |-> FALSE,
            focused |-> FALSE]
  /\ navListeners = FALSE
  /\ navEvent = "none"
  /\ navPrev = nav
  /\ progressEl = FALSE
  /\ scrollListener = FALSE
  /\ progressUpdates = 0

\* The texts the button's span may carry in the markup.
CopyLabels == {"Copy", "Copy code"}

\* The copy button's inputs.
InitCopyPart ==
  /\ copyBtn \in BOOLEAN
  /\ copySpan \in (IF copyBtn THEN BOOLEAN ELSE {FALSE})
  /\ codeEl \in BOOLEAN
  /\ statusRegion \in BOOLEAN
  /\ labelAtLoad \in (IF copySpan THEN CopyLabels ELSE {""})
  /\ copy = [copied |-> FALSE, label |-> labelAtLoad, status |-> "",
             selected |-> FALSE, resets |-> <<>>, clears |-> 0]
  /\ copyListener = FALSE
  /\ clicks = 0
  /\ pendingWrites = 0
  /\ anyRejected = FALSE
  /\ copyEvent = "none"
  /\ copyPrev = copy

\* A document without copy buttons.
NoCopyPart ==
  /\ copyBtn = FALSE
  /\ copySpan = FALSE
  /\ codeEl = FALSE
  /\ statusRegion = FALSE
  /\ labelAtLoad = ""
  /\ copy = [copied |-> FALSE, label |-> "", status |-> "",
             selected |-> FALSE, resets |-> <<>>, clears |-> 0]
  /\ copyListener = FALSE
  /\ clicks = 0
  /\ pendingWrites = 0
  /\ anyRejected = FALSE
  /\ copyEvent = "none"
  /\ copyPrev = copy

\* Every document starts loading, no listener has failed yet.
Loading == pc = "loading" /\ errors = {}

InitTOC ==
  Loading /\ InitTocPart /\ NoRevealPart /\ NoThemePart /\ NoNavPart /\ NoCopyPart
InitReveal ==
  Loading /\ NoTocPart /\ InitRevealPart /\ NoThemePart /\ NoNavPart /\ NoCopyPart
InitTheme ==
  Loading /\ NoTocPart /\ NoRevealPart /\ InitThemePart /\ NoNavPart /\ NoCopyPart
InitNav ==
  Loading /\ NoTocPart /\ InitRevealPart /\ NoThemePart /\ InitNavPart /\ NoCopyPart
InitCopy ==
  Loading /\ NoTocPart /\ NoRevealPart /\ NoThemePart /\ NoNavPart /\ InitCopyPart
Init == InitTOC \/ InitReveal

NextTOC == DOMContentLoaded \/ TocNotify
NextReveal == DOMContentLoaded \/ RevealNotify \/ MotionPrefChange
NextObservers == DOMContentLoaded \/ TocNotify \/ RevealNotify
NextThemeStep == DOMContentLoaded \/ ThemeClick \/ ThemeKeydown \/ SystemSchemeChange
NextNav == DOMContentLoaded \/ NavClick \/ NavKeydown
NextCopy ==
  \/ DOMContentLoaded
  \/ CopyClick
  \/ ClipboardSettles
  \/ ResetTimerFires
  \/ ClearTimerFires

\* The TOC highlighter on every document without reveal targets.
SpecTOC == InitTOC /\ [][NextTOC]_vars
\* The reveal animator on every document without a TOC.
SpecReveal == InitReveal /\ [][NextReveal]_vars
\* The callbacks of both observers, on the documents of SpecTOC and of
\* SpecReveal, under a preference that stays as it was at load.
SpecObservers == Init /\ [][NextObservers]_vars
\* The theme toggle on every document without a TOC and reveal targets.
SpecTheme == InitTheme /\ [][NextThemeStep]_vars
\* The navigation and the initialization of the progress bar and of the
\* animator, on every document without a TOC and a theme toggle.
SpecNav == InitNav /\ [][NextNav]_vars
\* The copy button on every document that holds nothing else.
SpecCopy == InitCopy /\ [][NextCopy]_vars

\* ============================================================ properties
\* The targets that have at least one intersecting entry in the batch.
Intersecting(batch) ==
  {batch[i].target : i \in {j \in DOMAIN batch : batch[j].isIntersecting}}

\* The position of the last intersecting entry of the batch (0: none).
LastIntersectingAt(batch) ==
  IF Intersecting(batch) = {} THEN 0
  ELSE CHOOSE i \in DOMAIN batch :
         /\ batch[i].isIntersecting
         /\ \A j \in DOMAIN batch : batch[j].isIntersecting => j <= i

\* The target of the last intersecting entry of the batch ("" : none).
LastIntersecting(batch) ==
  IF LastIntersectingAt(batch) = 0 THEN ""
  ELSE batch[LastIntersectingAt(batch)].target

\* The last entry of the batch for target k (<<>>: the batch has none).
LastEntryFor(batch, k) ==
  IF \E i \in DOMAIN batch : batch[i].target = k
    THEN <<batch[CHOOSE i \in DOMAIN batch :
                   /\ batch[i].target = k
                   /\ \A j \in DOMAIN batch : batch[j].target = k => j <= i]>>
    ELSE <<>>

\* Both batches hold the same last entry for every key of S.
SameLastPerKey(b1, b2, S) == \A k \in S : LastEntryFor(b1, k) = LastEntryFor(b2, k)

\* Batch b2 holds the entries of batch b1 in some order.
Reordered(b1, b2) ==
  /\ Len(b1) = Len(b2)
  /\ \E p \in Permutations(DOMAIN b1) : \A i \in DOMAIN b1 : b2[i] = b1[p[i]]

\* The TOC links whose href is the fragment of heading id.
Matching(id) == {l \in tocLinks : href[l] = "#" \o id}

\* The links' state now, as the callback's state record.
LinkState == [active |-> active, aria |-> ariaCurrent]

\* No two TOC links share an href.
DistinctHrefs == \A l1, l2 \in tocLinks : href[l1] = href[l2] => l1 = l2

\* ---------------------------------------------------------------- C1
\* C1 as stated: after each batch the TOC callback has processed, at most
\* one TOC link carries the class 'active'.
C1_AtMostOneActiveLink == tocBatch # <<>> => Cardinality(active) <= 1

\* C1, amended: after each batch the TOC callback has processed, all links
\* carrying 'active' have one and the same href (they point at one
\* heading), so at most one link carries it when the links' hrefs are
\* pairwise distinct.
C1_ActiveLinksShareHref ==
  tocBatch # <<>> =>
    /\ \A l1, l2 \in active : href[l1] = href[l2]
    /\ DistinctHrefs => Cardinality(active) <= 1

\* Two headings intersect in one batch, and one of two distinct links is active.
C1_Witness ==
  /\ Len(tocBatch) = 2
  /\ Cardinality(Intersecting(tocBatch)) = 2
  /\ Len(href) = 2
  /\ DistinctHrefs
  /\ Cardinality(active) = 1

\* ---------------------------------------------------------------- C2
\* C2: after a batch whose intersecting entries all belong to one heading
\* h, a TOC link carries 'active' if and only if its href is '#' + h.id,
\* whatever was active before.
C2_OnlyMatchingLinkActive ==
  \A h \in Ids :
    (tocBatch # <<>> /\ Intersecting(tocBatch) = {h}) => active = Matching(h)

\* Heading b alone intersects, its link becomes active and the link that
\* was active before is not any more.
C2_Witness ==
  /\ tocBatch # <<>>
  /\ Intersecting(tocBatch) = {"b"}
  /\ active # {}
  /\ tocPrev.active # {}
  /\ tocPrev.active \cap active = {}

\* ---------------------------------------------------------------- C3
\* C3: no step removes the class 'visible' from an element: the set of
\* visible elements only grows.
C3_VisibleOnlyGrows == [][visible \subseteq visible']_vars

\* An element revealed earlier gets a non-intersecting entry and is still visible.
C3_Witness ==
  \E i \in DOMAIN revealBatch :
    /\ ~revealBatch[i].isIntersecting
    /\ revealBatch[i].target \in revealPrev
    /\ revealBatch[i].target \in visible

\* ---------------------------------------------------------------- C4
\* C4: after a batch the reveal callback has processed, the visible set is
\* the previous visible set plus exactly the elements with at least one
\* intersecting entry in the batch; a non-intersecting entry changes nothing.
C4_VisibleIsPrevPlusIntersecting ==
  revealBatch # <<>> => visible = revealPrev \cup Intersecting(revealBatch)

\* The batch [(x,true), (y,true), (x,false)] leaves x and y visible.
C4_Witness ==
  /\ revealBatch = << [target |-> "x", isIntersecting |-> TRUE],
                      [target |-> "y", isIntersecting |-> TRUE],
                      [target |-> "x", isIntersecting |-> FALSE] >>
  /\ revealPrev = {}
  /\ visible = {"x", "y"}

\* ---------------------------------------------------------------- C5
\* C5: if the reduced-motion preference is true when initRevealAnimations
\* runs, every target element is visible from then on and no element is
\* ever registered with an intersection observer.
C5_ReducedMotionShowsAll ==
  (pc = "ready" /\ motionAtInit) =>
    /\ elements \subseteq visible
    /\ ~revealObserver
    /\ revealObserved = {}

\* Two targets, reduced motion at initialization: both visible, none observed.
C5_Witness ==
  /\ pc = "ready"
  /\ motionAtInit
  /\ elements = {"x", "y"}
  /\ visible = {"x", "y"}
  /\ revealObserved = {}

\* ---------------------------------------------------------------- C6
\* C6: if #toc is absent or no heading carries an id, initTOC registers no
\* observer and raises no error, and no TOC link's 'active' class or
\* aria-current attribute ever changes.
C6_NoTocNoObservation ==
  (pc = "ready" /\ (~toc \/ headings = {})) =>
    /\ ~tocObserver
    /\ tocObserved = {}
    /\ ~tocThrew
    /\ tocBatch = <<>>
    /\ active = {}
    /\ ariaCurrent = {}

\* A document whose #toc holds two links and that has no heading with an
\* id, after initialization.
C6_Witness ==
  /\ pc = "ready"
  /\ toc
  /\ Len(href) = 2
  /\ headings = {}
  /\ ~tocObserver

\* ---------------------------------------------------------------- C7
\* C7: after a batch with at least one intersecting entry, a link carries
\* aria-current if and only if it carries 'active', and these links are
\* the ones whose href matches the heading of the entry applied last.
C7_AriaCurrentMirrorsActive ==
  (tocBatch # <<>> /\ Intersecting(tocBatch) # {}) =>
    /\ ariaCurrent = active
    /\ \A l \in tocLinks :
         l \in ariaCurrent <=> href[l] = "#" \o LastIntersecting(tocBatch)

\* The attribute moved: the link that had it lost it, another link has it.
C7_Witness ==
  /\ tocBatch # <<>>
  /\ Intersecting(tocBatch) # {}
  /\ tocPrev.aria # {}
  /\ ariaCurrent # {}
  /\ tocPrev.aria \cap ariaCurrent = {}

\* ---------------------------------------------------------------- C8
\* C8: when one batch holds intersecting entries of several headings, the
\* links' state after the batch is the state the batch's last intersecting
\* entry alone would have produced: the earlier entries leave no trace.
C8_LastIntersectingEntryWins ==
  (tocBatch # <<>> /\ Cardinality(Intersecting(tocBatch)) >= 2) =>
    /\ active = Matching(LastIntersecting(tocBatch))
    /\ LinkState
         = TocCallback(tocPrev, <<tocBatch[LastIntersectingAt(tocBatch)]>>)

\* Headings a then b intersect in one batch; only b's link is active.
C8_Witness ==
  /\ tocBatch = << [target |-> "a", isIntersecting |-> TRUE],
                   [target |-> "b", isIntersecting |-> TRUE] >>
  /\ Matching("a") # {}
  /\ active = Matching("b")
  /\ active # {}

\* ---------------------------------------------------------------- C9
\* C9 as stated: for both observers, the state after a batch depends only
\* on the last entry of each key, not on the arrival order: the same
\* entries in any other order that keeps every key's last entry produce
\* the same state from the same starting state.
C9_LastEntryPerKeyDecides ==
  /\ tocBatch # <<>> =>
       \A b \in Batches(tocObserved, MaxTocBatch) :
         (Reordered(tocBatch, b) /\ SameLastPerKey(tocBatch, b, tocObserved))
           => TocCallback(tocPrev, b) = LinkState
  /\ revealBatch # <<>> =>
       \A b \in Batches(revealObserved, MaxRevealBatch) :
         (Reordered(revealBatch, b) /\ SameLastPerKey(revealBatch, b, revealObserved))
           => RevealCallback(revealPrev, b) = visible

\* C9, amended: the TOC's state after a batch depends only on the batch's
\* last intersecting entry, whatever its heading (so on the arrival order
\* of the headings' entries); the animator's state depends only on the set
\* of elements with at least one intersecting entry (so not on the order).
C9_WhatDecidesTheState ==
  /\ tocBatch # <<>> =>
       \A b \in Batches(tocObserved, MaxTocBatch) :
         LastIntersecting(b) = LastIntersecting(tocBatch)
           => TocCallback(tocPrev, b) = LinkState
  /\ revealBatch # <<>> =>
       \A b \in Batches(revealObserved, MaxRevealBatch) :
         Intersecting(b) = Intersecting(revealBatch)
           => RevealCallback(revealPrev, b) = visible

\* Headings b then a intersect in one batch, both have a link, and a's
\* links are the active ones.
C9_Witness ==
  /\ tocBatch = << [target |-> "b", isIntersecting |-> TRUE],
                   [target |-> "a", isIntersecting |-> TRUE] >>
  /\ Matching("b") # {}
  /\ active = Matching("a")
  /\ active # {}

\* ---------------------------------------------------------------- C10
\* C10: the reduced-motion preference is read once, at initialization.
\* Once it differs from what it was then: if it was false, all targets are
\* still observed and exactly the elements that intersected are visible;
\* if it was true, there is still no observer.
C10_PreferenceSampledOnce ==
  (pc = "ready" /\ elements # {} /\ reducedMotion # motionAtInit) =>
    /\ motionReads = 1
    /\ motionAtInit => (~revealObserver /\ revealObserved = {})
    /\ ~motionAtInit =>
         /\ revealObserver
         /\ revealObserved = elements
         /\ visible = IF revealBatch = <<>> THEN {}
                      ELSE revealPrev \cup Intersecting(revealBatch)

\* The preference turned to reduce after initialization, a batch arrived
\* later, and an element that never intersected is still not visible.
C10_Witness ==
  /\ pc = "ready"
  /\ ~motionAtInit
  /\ reducedMotion
  /\ revealBatch # <<>>
  /\ elements = {"x", "y"}
  /\ visible = {"x"}

\* ---------------------------------------------------------------- C16
\* C16: a batch of non-intersecting entries only changes no link's 'active'
\* class and no link's aria-current attribute: the link of a heading that
\* leaves the band stays active until another heading enters it.
C16_NonIntersectingBatchIsNoOp ==
  (tocBatch # <<>> /\ Intersecting(tocBatch) = {}) => LinkState = tocPrev

\* Heading a, whose link is active, reports that it no longer intersects,
\* and its link is still active.
C16_Witness ==
  /\ tocBatch = << [target |-> "a", isIntersecting |-> FALSE] >>
  /\ tocPrev.active = Matching("a")
  /\ active = Matching("a")
  /\ active # {}

\* ------------------------------------------------------- theme helpers
\* A theme preference can be read from the store: the access does not
\* throw and the item is there.
Readable == storageMode # "blocked" /\ stored # NoItem

\* The theme event handled last was a run of toggleTheme.
Toggled == themeEvent \in {"click", "key"}

\* ---------------------------------------------------------------- C11
\* C11: failures of the store are swallowed: no listener ends with an
\* error; with a blocked store initTheme sees no saved theme; and with a
\* store that refuses writes a toggle leaves the store as it was and still
\* flips the displayed theme and updates aria-pressed.
C11_StorageFailuresSwallowed ==
  /\ errors = {}
  /\ (themeEvent = "init" /\ storageMode = "blocked") =>
       theme = IF prefersDark THEN "dark" ELSE themePrev
  /\ (Toggled /\ storageMode # "ok") =>
       /\ stored = storedPrev
       /\ theme = NextTheme(themePrev)
       /\ ariaPressed = BoolString(theme = "dark")

\* The store holds 'dark' and refuses writes; a click made the theme light.
C11_Witness ==
  /\ themeEvent = "click"
  /\ storageMode = "full"
  /\ stored = "dark"
  /\ themePrev = "dark"
  /\ theme = "light"
  /\ ariaPressed = "false"

\* ---------------------------------------------------------------- C13
\* C13: a change of the system's colour scheme sets the displayed theme
\* (and aria-pressed) from the new preference if and only if no theme
\* preference can be read from the store; otherwise the displayed theme
\* stays as it was.
C13_SchemeChangeFollowedWithoutPreference ==
  themeEvent = "scheme" =>
    IF Readable
      THEN theme = themePrev
      ELSE /\ theme = IF prefersDark THEN "dark" ELSE "light"
           /\ themeToggle => ariaPressed = BoolString(prefersDark)

\* Nothing stored: the system turned light and the dark page followed.
C13_Witness ==
  /\ themeEvent = "scheme"
  /\ ~Readable
  /\ themeToggle
  /\ themePrev = "dark"
  /\ theme = "light"
  /\ ariaPressed = "false"

\* ---------------------------------------------------------------- C19
\* C19: when the toggle exists, after initialization and after every later
\* event aria-pressed is 'true' exactly when the displayed theme is 'dark'.
C19_AriaPressedMirrorsTheme ==
  (pc = "ready" /\ themeToggle) => ariaPressed = BoolString(theme = "dark")

\* The markup said aria-pressed="false"; a key press made the page dark.
C19_Witness ==
  /\ themeEvent = "key"
  /\ themePrev # "dark"
  /\ theme = "dark"
  /\ ariaPressed = "true"

C14_MissingTargetsDeclined ==
  pc = "ready" =>
    /\ errors = {}
    /\ (~navToggle \/ ~navLinks) => ~navListeners
    /\ ~progressEl => (~scrollListener /\ progressUpdates = 0)
    /\ elements = {} =>
         (~revealObserver /\ revealObserved = {} /\ motionReads = 0)

\* A loaded document with a toggle but no #nav-links, no #progress and no
\* reveal targets, on a system that asks for reduced motion.
C14_Witness ==
  /\ pc = "ready"
  /\ navToggle
  /\ ~navLinks
  /\ ~progressEl
  /\ elements = {}
  /\ reducedMotion
  /\ ~navListeners

\* ---------------------------------------------------------------- C17
\* C17: a click on the toggle flips the menu exactly once, although the
\* document's click listener sees the same click; a click outside toggle
\* and links, a click on a navigation link and Escape on an open menu
\* leave the menu closed; Escape on a closed menu changes nothing.
C17_MenuTransitions ==
  /\ navEvent = "toggle" => nav.open = ~navPrev.open
  /\ navEvent \in {"outside", "link"} => ~nav.open
  /\ (navEvent = "Escape" /\ navPrev.open) => ~nav.open
  /\ (navEvent = "Escape" /\ ~navPrev.open) => nav = navPrev

\* A click on the toggle opened the closed menu.
C17_Witness ==
  /\ navEvent = "toggle"
  /\ ~navPrev.open
  /\ nav.open
  /\ nav.expanded = "true"

\* ---------------------------------------------------------------- C18
\* C18: once openMenu or closeMenu has run, the toggle's aria-expanded is
\* 'true' exactly when #nav-links has the class 'open'.
C18_AriaExpandedMirrorsOpen ==
  nav.touched => (nav.expanded = "true" <=> nav.open)

\* The markup shipped an open menu whose toggle had no aria-expanded;
\* Escape closed it, and class and attribute agree.
C18_Witness ==
  /\ navEvent = "Escape"
  /\ navPrev.open
  /\ navPrev.expanded = "unset"
  /\ ~navPrev.touched
  /\ ~nav.open
  /\ nav.expanded = "false"

\* ------------------------------------------------------------------ C12
\* C12: when the clipboard write is rejected the listener catches the
\* rejection (no error escapes), announces the failure in the status region
\* and selects the code; the 'copied' class, the label and the pending 2 s
\* reset timers are what they were before.
C12_RejectionFallsBackWithoutFeedback ==
  copyEvent = "rejected" =>
    /\ errors = {}
    /\ statusRegion => copy.status = "Failed to copy code"
    /\ copy.selected
    /\ copy.copied = copyPrev.copied
    /\ copy.label = copyPrev.label
    /\ copy.resets = copyPrev.resets

\* The first write of a button with a span and a status region was rejected.
C12_Witness ==
  /\ copyEvent = "rejected"
  /\ copySpan
  /\ statusRegion
  /\ copy.status = "Failed to copy code"
  /\ copy.selected
  /\ ~copy.copied
  /\ copy.label = labelAtLoad
  /\ copy.resets = <<>>

\* ------------------------------------------------------------------ C15
\* Nothing of the copy button is in flight: every write has settled and
\* every reset timer has fired.
CopyQuiet == pc = "ready" /\ pendingWrites = 0 /\ copy.resets = <<>>

\* C15: after clicks whose writes all succeeded, once every reset timer has
\* fired, the button has no 'copied' class and its label is the one it had
\* before the first click.
C15_LabelRestoredAfterTimers ==
  (CopyQuiet /\ ~anyRejected) => (~copy.copied /\ copy.label = labelAtLoad)

=============================================================================
